---- MODULE Spec2Model ----
(***************************************************************************)
(* Verification model of starkSnipe.                                       *)
(*                                                                         *)
(*  - SpecMonitor  : Monitor::listen_for_events (src/provider/mod.rs), the *)
(*                   two-phase catch-up / live-poll loop, against a chain  *)
(*                   that keeps producing blocks.                          *)
(*  - SpecPipeline : handle_event / process_launch_event /                 *)
(*                   retry_failed_call (src/main.rs), one task per         *)
(*                   delivered event, interleaved freely.                  *)
(*  - SpecCodec    : generate_calls / parse_call_result /                  *)
(*                   get_aggregate_call_data (src/utils/call.rs) applied   *)
(*                   to response buffers drawn from a bounded set.         *)
(***************************************************************************)
EXTENDS Integers, Sequences, FiniteSets, TLC

VARIABLES
    \* ---- chain (environment of the monitor)
    chain,                \* block number of every event matching the filter, in chain order
    head,                 \* latest block number of the chain
    \* ---- Monitor::listen_for_events
    from_block,           \* filter.from_block: a block number or NoBlock
    mpc,                  \* "catchup" | "live"
    continuation_token,   \* NoToken or the position of the next event to return
    last_processed_block,
    handled,              \* handled[e]: how many times event e was passed to the callback
    lastPage,             \* events of the batch last passed to the callback, in order
    lastPhase,            \* phase in which the last callback ran ("none" before the first)
    wmAtFetch,            \* last_processed_block when the fetch of lastPage started
    wmAtCallback,         \* last_processed_block when the callback for lastPage was invoked
    lastReq,              \* the request last issued: [from, token, ok]
    fetchErrs,            \* number of failed fetches so far
    \* ---- launch pipeline (src/main.rs)
    LAST_PROCESSED_BLOCK, \* the shared AtomicU64 watermark
    permits,              \* permits available in CONCURRENT_CALLS
    delivered,            \* number of events handed to the handler so far
    evBlock,              \* evBlock[t]: block_number of event t
    hpc,                  \* hpc[t]: position of the handler task of event t
    rpc,                  \* rpc[t]: position of the retry task spawned for event t
    retry,                \* retry[t]: loop variable of retry_failed_call
    sleptMs,              \* sleptMs[t]: duration of the sleep last started by the retry task
    attempts,             \* attempts[t]: calls of get_aggregate_call_data made for event t
    spawned,              \* spawned[t]: retry tasks started for event t
    nEvents,              \* number of events the indexer delivers in this run
    topBlock,             \* their block numbers are 1..topBlock
    faults,               \* failed aggregation calls the RPC endpoint may still produce
    \* ---- one aggregation call (src/utils/call.rs)
    cpc,                  \* "idle" | "called" | "done"
    rpcOk,                \* whether provider.call returned Ok
    call_result,          \* the flat result buffer returned by the aggregator
    outcome,              \* "none" | "ok" | "err" | "panic"
    readIdx,              \* 0-based buffer indices parse_call_result has read
    oobIdx,               \* 0-based index of an access past the end, or NoIndex
    parsed,               \* the fields decoded from call_result
    \* ---- one call of a library function (src/utils)
    op,                   \* the function called, "none" before the call
    args,                 \* its arguments
    result                \* what it returned, or the panic it ended in

monVars == <<chain, head, from_block, mpc, continuation_token, last_processed_block,
             handled, lastPage, lastPhase, wmAtFetch, wmAtCallback, lastReq, fetchErrs>>

pipeVars == <<LAST_PROCESSED_BLOCK, permits, delivered, evBlock, hpc, rpc, retry,
              sleptMs, attempts, spawned, nEvents, topBlock, faults>>

codecVars == <<cpc, rpcOk, call_result, outcome, readIdx, oobIdx, parsed>>

libVars == <<op, args, result>>

vars == <<monVars, pipeVars, codecVars, libVars>>

----------------------------------------------------------------------------
(* Bounds *)
MaxBlock      == 3     \* the chain produces blocks 0..MaxBlock
MaxEvents     == 5     \* at most this many matching events on the chain
MaxPerBlock   == 3     \* at most this many matching events in one new block
MaxFetchErrs  == 2     \* at most this many failed fetches in a run
PageLimit     == 2     \* chunk size of get_events (1000 in the program)

NumEvents     == 3     \* events delivered to the launch handler
MaxEvBlock    == 2     \* their block numbers are 1..MaxEvBlock
MaxFailures   == 4     \* at most this many failed aggregation calls in a run

HalfBits      == 2     \* width of one half of a 256-bit integer (128 in the program)
MaxField      == 1     \* result words of the sampled responses are 0..MaxField

MaxHexLen     == 4     \* hex strings given to decode_short_string have 0..MaxHexLen characters
MaxNumerator  == 2     \* sampled fractions have numerators and denominators in -MaxNumerator..MaxNumerator
ByteRange     == 3     \* values of one byte of a short string are 0..ByteRange-1 (256 in the program)
ShortStringLen == 2    \* bytes of a short string (31 in the program)
AddrBound     == 2     \* addresses are normalized modulo AddrBound (2^251 - 256 in the program)
LargeNumberDecimals == 2  \* decimals format_large_number divides by (18 in the program)
MaxInputLen   == 4     \* strings given to format_large_number have 0..MaxInputLen characters
MaxOps        == 2     \* operations applied in sequence to one fraction
Precision     == 1     \* decimals kept by to_formatted_string (18 in the program)
MaxFormatNum  == 20    \* small numerators of the fractions given to to_significant_digits
DECIMALS      == 2     \* decimals of the price scale (18 in the program)
PriceScale    == 1     \* get_price scales the reserve ratio by 10^PriceScale (10^12 in the program)
MaxReserveWord == 1    \* words of a get_reserves reply are 0..MaxReserveWord
McapScale     == 1     \* the market cap is divided by 10^DECIMALS * 10^McapScale (10^48 in the program)
MaxPrice      == 1     \* truncated initial prices are -1..MaxPrice
MaxSupply     == 2     \* total supplies of sampled memecoins are 0..MaxSupply
MaxAddress    == 8     \* memecoin addresses given to generate_calls are the field elements 0..MaxAddress

NoBlock == -1
NoIndex == -1
NoToken == -1

Min(a, b) == IF a < b THEN a ELSE b

RECURSIVE Ascending(_)
Ascending(s) ==
    IF Len(s) <= 1 THEN TRUE
    ELSE s[1] <= s[2] /\ Ascending(Tail(s))

\* Result values: Ok(v) and Err(e)
Ok(v)  == [status |-> "ok", value |-> v]
Err(e) == [status |-> "err", error |-> e]

----------------------------------------------------------------------------
(* The chain: blocks are appended, each with its matching events.          *)

NewBlock ==
    /\ UNCHANGED <<pipeVars, codecVars, libVars>>
    /\ head < MaxBlock
    /\ \E k \in 0..MaxPerBlock :
         /\ Len(chain) + k <= MaxEvents
         /\ chain' = chain \o [i \in 1..k |-> head + 1]
    /\ head' = head + 1
    /\ UNCHANGED <<from_block, mpc, continuation_token, last_processed_block,
                   handled, lastPage, lastPhase, wmAtFetch, wmAtCallback, lastReq, fetchErrs>>

(* provider.get_events(filter, token, chunk): the events at or after       *)
(* filter.from_block, from the token's position, at most chunk of them,    *)
(* and a continuation token when more remain.                              *)
FirstMatch(from) == 1 + Cardinality({i \in 1..Len(chain) : chain[i] < from})

GetEvents(from, token, chunk) ==
    LET pos  == IF token = NoToken THEN FirstMatch(from) ELSE token
        last == Min(Len(chain), pos + chunk - 1)
    IN  [events |-> [i \in 1..(last - pos + 1) |-> pos + i - 1],
         continuation_token |-> IF last < Len(chain) THEN last + 1 ELSE NoToken]

----------------------------------------------------------------------------
(* Monitor::listen_for_events                                              *)

\* let mut last_processed_block = match filter.from_block { Some(Number(n)) => n, _ => 0 }
StartBlock(fb) == IF fb = NoBlock THEN 0 ELSE fb

\* the block the provider starts from for the unmodified filter
FilterFrom(fb) == IF fb = NoBlock THEN 0 ELSE fb

\* (variant: the catch-up request is sent without the token)
CatchUpRequestTokenDropped(tok) == NoToken

\* the token sent with a catch-up request
CatchUpRequestToken(tok) == tok

\* (variant: the live poll keeps the from_block of the cloned filter)
LiveFromBlockStale(lpb, fb) == fb

\* new_filter = filter.clone();
\* new_filter.from_block = Some(BlockId::Number(last_processed_block + 1))
LiveFromBlock(lpb, fb) == lpb + 1

\* last_event.block_number.unwrap() as u64
LastEventBlock(page) == chain[page[Len(page)]]

Deliver(page) == [e \in 1..MaxEvents |->
                    IF \E i \in 1..Len(page) : page[i] = e
                    THEN handled[e] + 1 ELSE handled[e]]

\* (variant: the empty final page is followed by `continue`)
AfterEmptyPageContinue == "catchup"

\* if events.events.is_empty() && events.continuation_token.is_none() { break; }
\* leaves the catch-up loop for the live loop
AfterEmptyPage == "live"

CatchUpFetchOk ==
    /\ UNCHANGED <<pipeVars, codecVars, libVars>>
    /\ mpc = "catchup"
    /\ LET tok == CatchUpRequestToken(continuation_token)
           ev  == GetEvents(FilterFrom(from_block), tok, PageLimit)
       IN  /\ lastReq' = [from |-> FilterFrom(from_block), token |-> tok, ok |-> TRUE]
           /\ IF ev.events = <<>> /\ ev.continuation_token = NoToken
              THEN /\ mpc' = AfterEmptyPage
                   /\ UNCHANGED <<continuation_token, last_processed_block, handled,
                                  lastPage, lastPhase, wmAtFetch, wmAtCallback>>
              ELSE /\ IF ev.events # <<>>
                      THEN /\ last_processed_block' = LastEventBlock(ev.events)
                           /\ wmAtFetch' = last_processed_block
                           /\ wmAtCallback' = last_processed_block'
                           /\ handled' = Deliver(ev.events)
                           /\ lastPage' = ev.events
                           /\ lastPhase' = "catchup"
                      ELSE UNCHANGED <<last_processed_block, handled, lastPage,
                                       lastPhase, wmAtFetch, wmAtCallback>>
                   /\ continuation_token' = ev.continuation_token
                   /\ mpc' = IF ev.continuation_token = NoToken THEN "live" ELSE "catchup"
    /\ UNCHANGED <<chain, head, from_block, fetchErrs>>

\* (variant: the Err arm leaves its loop instead of repeating it)
AfterFetchErrorBreak(phase) == "live"

\* Err(e) => { sleep(1s); continue; }: the loop the monitor is in goes on
AfterFetchError(phase) == phase

CatchUpFetchErr ==
    /\ UNCHANGED <<pipeVars, codecVars, libVars>>
    /\ mpc = "catchup"
    /\ fetchErrs < MaxFetchErrs
    /\ fetchErrs' = fetchErrs + 1
    /\ lastReq' = [from |-> FilterFrom(from_block),
                   token |-> CatchUpRequestToken(continuation_token), ok |-> FALSE]
    /\ mpc' = AfterFetchError(mpc)
    /\ UNCHANGED <<chain, head, from_block, continuation_token, last_processed_block,
                   handled, lastPage, lastPhase, wmAtFetch, wmAtCallback>>

LivePollOk ==
    /\ UNCHANGED <<pipeVars, codecVars, libVars>>
    /\ mpc = "live"
    /\ LET from == LiveFromBlock(last_processed_block, FilterFrom(from_block))
           ev   == GetEvents(from, NoToken, PageLimit)
       IN  /\ lastReq' = [from |-> from, token |-> NoToken, ok |-> TRUE]
           /\ IF ev.events # <<>>
              THEN /\ last_processed_block' = LastEventBlock(ev.events)
                   /\ wmAtFetch' = last_processed_block
                   /\ wmAtCallback' = last_processed_block'
                   /\ handled' = Deliver(ev.events)
                   /\ lastPage' = ev.events
                   /\ lastPhase' = "live"
              ELSE UNCHANGED <<last_processed_block, handled, lastPage,
                               lastPhase, wmAtFetch, wmAtCallback>>
    /\ UNCHANGED <<chain, head, from_block, mpc, continuation_token, fetchErrs>>

LivePollErr ==
    /\ UNCHANGED <<pipeVars, codecVars, libVars>>
    /\ mpc = "live"
    /\ fetchErrs < MaxFetchErrs
    /\ fetchErrs' = fetchErrs + 1
    /\ lastReq' = [from |-> LiveFromBlock(last_processed_block, FilterFrom(from_block)),
                   token |-> NoToken, ok |-> FALSE]
    /\ mpc' = AfterFetchError(mpc)
    /\ UNCHANGED <<chain, head, from_block, continuation_token, last_processed_block,
                   handled, lastPage, lastPhase, wmAtFetch, wmAtCallback>>

----------------------------------------------------------------------------
(* Multicall codec: generate_calls, parse_call_result,                     *)
(* get_aggregate_call_data                                                 *)

RECURSIVE SumSeq(_)
SumSeq(s) == IF s = <<>> THEN 0 ELSE s[1] + SumSeq(Tail(s))

RECURSIVE Flatten(_)
Flatten(ss) == IF ss = <<>> THEN <<>> ELSE ss[1] \o Flatten(Tail(ss))

\* The batch built by generate_calls, in encode order: the method of each
\* call, its argument count, and the width in words of what it returns.
CallBatch == <<
    [method |-> "is_memecoin",                        nargs |-> 1, width |-> 1],
    [method |-> "name",                               nargs |-> 0, width |-> 1],
    [method |-> "symbol",                             nargs |-> 0, width |-> 1],
    [method |-> "total_supply",                       nargs |-> 0, width |-> 2],
    [method |-> "owner",                              nargs |-> 0, width |-> 1],
    [method |-> "launched_at_block_number",           nargs |-> 0, width |-> 1],
    [method |-> "get_team_allocation",                nargs |-> 0, width |-> 2],
    [method |-> "launched_with_liquidity_parameters", nargs |-> 0, width |-> 5] >>

NumCalls == Len(CallBatch)

Widths == [k \in 1..NumCalls |-> CallBatch[k].width]

\* What the aggregate entry point returns for the results of the calls:
\* the block number, the number of results, then every result as its
\* length followed by its words.
AggregateResponse(block_number, results) ==
    <<block_number, Len(results)>>
      \o Flatten([k \in 1..Len(results) |-> <<Len(results[k])>> \o results[k]])

\* 0-based index of word j (0-based) of the result of call k in a well-formed response
ResultIndex(k, j) == 2 + SumSeq([m \in 1..(k - 1) |-> 1 + Widths[m]]) + 1 + j

\* the indices of all result words of a well-formed response
ResultIndices == UNION {{ResultIndex(k, j) : j \in 0..(Widths[k] - 1)} : k \in 1..NumCalls}

FullLength == 2 + SumSeq([k \in 1..NumCalls |-> 1 + Widths[k]])

\* u128::from_be_bytes(bytes[16..32]): the low half of a word
LowHalf(w) == w % (2 ^ HalfBits)

\* U256::from_words with its two arguments taken in the other order
U256FromWordsSwapped(low, high) == high + low * (2 ^ HalfBits)

\* U256::from_words(low, high)
U256FromWords(low, high) == low + high * (2 ^ HalfBits)

DigitChars == <<"0", "1", "2", "3", "4", "5", "6", "7", "8", "9">>

\* the character of one decimal digit
DigitChar(k) == DigitChars[k + 1]

\* format!("{}", n) of a non-negative integer: its decimal digits, most
\* significant first, as a sequence of characters
RECURSIVE ToDecimal(_)
ToDecimal(n) ==
    IF n < 10 THEN <<DigitChar(n)>>
    ELSE ToDecimal(n \div 10) \o <<DigitChar(n % 10)>>

\* u256_to_decimal_str(value) = format!("{}", value)
u256_to_decimal_str(value) == ToDecimal(value)

\* the number a sequence of decimal digit characters denotes
RECURSIVE DecimalValue(_)
DecimalValue(s) ==
    IF s = <<>> THEN 0
    ELSE 10 * DecimalValue(SubSeq(s, 1, Len(s) - 1))
           + (CHOOSE k \in 0..9 : DigitChar(k) = s[Len(s)])

\* The accesses of parse_call_result in program order: call_result[i]
\* panics past the end, call_result.get(i) does not.
ParseAccesses == <<
    [idx |-> 1,  checked |-> FALSE],
    [idx |-> 5,  checked |-> FALSE],
    [idx |-> 7,  checked |-> FALSE],
    [idx |-> 9,  checked |-> TRUE],
    [idx |-> 10, checked |-> TRUE],
    [idx |-> 12, checked |-> FALSE],
    [idx |-> 14, checked |-> FALSE],
    [idx |-> 16, checked |-> TRUE],
    [idx |-> 17, checked |-> TRUE] >>

\* the first access that indexes past the end of a buffer of length n, or 0
RECURSIVE FirstPanic(_, _)
FirstPanic(n, k) ==
    IF k > Len(ParseAccesses) THEN 0
    ELSE IF ~ParseAccesses[k].checked /\ ParseAccesses[k].idx >= n THEN k
    ELSE FirstPanic(n, k + 1)

Word(buf, i) == buf[i + 1]
Has(buf, i)  == i < Len(buf)

\* match (call_result.get(a), call_result.get(b)) { (Some, Some) => u256, _ => "0" }
U256At(buf, a, b) ==
    IF Has(buf, a) /\ Has(buf, b)
    THEN u256_to_decimal_str(U256FromWords(LowHalf(Word(buf, a)), LowHalf(Word(buf, b))))
    ELSE <<"0">>

parse_call_result(buf) ==
    LET p    == FirstPanic(Len(buf), 1)
        done == IF p = 0 THEN Len(ParseAccesses) ELSE p - 1
    IN  [status |-> IF p = 0 THEN "ok" ELSE "panic",
         oob    |-> IF p = 0 THEN NoIndex ELSE ParseAccesses[p].idx,
         read   |-> {ParseAccesses[k].idx : k \in 1..done} \cap 0..(Len(buf) - 1),
         fields |-> IF p # 0 THEN <<>>
                    ELSE [name            |-> Word(buf, 5),
                          symbol          |-> Word(buf, 7),
                          total_supply    |-> U256At(buf, 9, 10),
                          owner           |-> Word(buf, 12),
                          launched_block  |-> Word(buf, 14),
                          team_allocation |-> U256At(buf, 16, 17)]]

\* get_aggregate_call_data once provider.call has returned
AggregateOutcome(ok, buf) ==
    IF ~ok THEN "err"
    ELSE IF parse_call_result(buf).status = "panic" THEN "panic"
    ELSE "ok"

Truncate(buf, n) == SubSeq(buf, 1, Min(n, Len(buf)))

\* the words sampled for the halves of a 256-bit value: every value of a
\* half, and one word that does not fit in a half
HalfWords == 0..(2 ^ HalfBits)

\* sampled results of the eight calls
SampleResults ==
    {<< <<m>>, <<1>>, <<1>>, <<lo, hi>>, <<1>>, <<1>>, <<ta, 0>>, <<0, 1, 1, 0, 1>> >> :
        m \in 0..MaxField, lo \in HalfWords, hi \in HalfWords, ta \in 0..MaxField}

SampleResponses ==
    {Truncate(AggregateResponse(1, r), n) : r \in SampleResults, n \in 0..FullLength}

InitCodec ==
    /\ cpc = "idle"
    /\ rpcOk = FALSE
    /\ call_result = <<>>
    /\ outcome = "none"
    /\ readIdx = {}
    /\ oobIdx = NoIndex
    /\ parsed = <<>>

\* provider.call(...) returns a result buffer
CallReturns ==
    /\ cpc = "idle"
    /\ \E buf \in SampleResponses : call_result' = buf
    /\ rpcOk' = TRUE
    /\ cpc' = "called"
    /\ UNCHANGED <<outcome, readIdx, oobIdx, parsed>>
    /\ UNCHANGED <<monVars, pipeVars, libVars>>

\* provider.call(...) fails: Err(AggregateError::ContractCall)
CallFails ==
    /\ cpc = "idle"
    /\ rpcOk' = FALSE
    /\ cpc' = "done"
    /\ outcome' = AggregateOutcome(FALSE, call_result)
    /\ UNCHANGED <<call_result, readIdx, oobIdx, parsed>>
    /\ UNCHANGED <<monVars, pipeVars, libVars>>

\* parse_call_result(call_result), then Ok(parsed_result)
ParseResult ==
    /\ cpc = "called"
    /\ LET r == parse_call_result(call_result)
       IN  /\ readIdx' = r.read
           /\ oobIdx' = r.oob
           /\ parsed' = r.fields
    /\ outcome' = AggregateOutcome(TRUE, call_result)
    /\ cpc' = "done"
    /\ UNCHANGED <<rpcOk, call_result>>
    /\ UNCHANGED <<monVars, pipeVars, libVars>>

\* the outcomes get_aggregate_call_data can have
CallOutcomes == {AggregateOutcome(ok, buf) : ok \in BOOLEAN, buf \in SampleResponses}

NextCodec ==
    \/ CallReturns
    \/ CallFails
    \/ ParseResult

----------------------------------------------------------------------------
(* Event decoding: src/utils/event_parser.rs and handle_event              *)

\* the characters of the bytes 1, 2, ...: byte 1 stands for a control
\* character, the bytes from 2 on for graphic ASCII characters
ByteChars == <<"^A", "a", "b", "c", "d", "e">>

\* c.is_ascii_graphic() || c.is_ascii_whitespace()
IsPrintable(c) == c # "^A"

\* felt.to_bytes_be(), without the leading byte that a short string leaves zero
FeltBytes(w) ==
    [i \in 1..ShortStringLen |-> (w \div (ByteRange ^ (ShortStringLen - i))) % ByteRange]

\* parse_cairo_short_string: zero is the empty string, a value that needs
\* the leading byte is out of range, a zero byte after a character is an
\* unexpected terminator, leading zero bytes are skipped
parse_cairo_short_string(w) ==
    LET bytes == FeltBytes(w)
    IN  IF w = 0 THEN Ok(<<>>)
        ELSE IF w >= ByteRange ^ ShortStringLen THEN Err("ValueOutOfRange")
        ELSE IF \E i, j \in 1..ShortStringLen : i < j /\ bytes[i] # 0 /\ bytes[j] = 0
        THEN Err("UnexpectedNullTerminator")
        ELSE LET nonzero == SelectSeq(bytes, LAMBDA b : b # 0)
             IN  Ok([k \in 1..Len(nonzero) |-> ByteChars[nonzero[k]]])

parse_and_validate_short_string(w) ==
    LET parsed_string == parse_cairo_short_string(w)
    IN  IF parsed_string.status = "err" THEN parsed_string
        ELSE IF \E k \in 1..Len(parsed_string.value) : ~IsPrintable(parsed_string.value[k])
        THEN Ok(ToDecimal(w))
        ELSE parsed_string

\* normalize_address: the address modulo the address bound
normalize_address(w) == w % AddrBound

\* (variant: data.next().unwrap())
NextWordUnwrapped(data, i, missing) ==
    IF i <= Len(data) THEN Ok(data[i]) ELSE [status |-> "panic", kind |-> "unwrap on None"]

\* data.next().context(missing) for the i-th call of next
NextWord(data, i, missing) ==
    IF i <= Len(data) THEN Ok(data[i]) ELSE Err(missing)

\* the first element of a sequence of results that is not Ok, or none
FirstFailure(results) ==
    IF \E k \in 1..Len(results) : results[k].status # "ok"
    THEN results[CHOOSE k \in 1..Len(results) :
                    /\ results[k].status # "ok"
                    /\ \A m \in 1..(k - 1) : results[m].status = "ok"]
    ELSE Ok(<<>>)

\* LaunchEvent::from_starknet_event_data
LaunchEventFromData(data) ==
    LET memecoin_address == NextWord(data, 1, "Missing memecoin_address")
        quote_token      == NextWord(data, 2, "Missing quote_token")
        exchange_word    == NextWord(data, 3, "Missing exchange_name")
        exchange_name    == IF exchange_word.status = "ok"
                            THEN parse_cairo_short_string(exchange_word.value)
                            ELSE exchange_word
        failure == FirstFailure(<<memecoin_address, quote_token, exchange_name>>)
    IN  IF failure.status # "ok" THEN failure
        ELSE Ok([memecoin_address |-> normalize_address(memecoin_address.value),
                 quote_token      |-> normalize_address(quote_token.value),
                 exchange_name    |-> exchange_name.value])

\* CreationEvent::from_starknet_event_data
CreationEventFromData(data) ==
    LET owner  == NextWord(data, 1, "Missing owner")
        name_word   == NextWord(data, 2, "Missing name")
        name   == IF name_word.status = "ok"
                  THEN parse_cairo_short_string(name_word.value) ELSE name_word
        symbol_word == NextWord(data, 3, "Missing symbol")
        symbol == IF symbol_word.status = "ok"
                  THEN parse_and_validate_short_string(symbol_word.value) ELSE symbol_word
        low    == NextWord(data, 4, "Missing initial_supply low")
        high   == NextWord(data, 5, "Missing initial_supply high")
        memecoin_address == NextWord(data, 6, "Missing memecoin_address")
        failure == FirstFailure(<<owner, name, symbol, low, high, memecoin_address>>)
    IN  IF failure.status # "ok" THEN failure
        ELSE Ok([owner            |-> normalize_address(owner.value),
                 name             |-> name.value,
                 symbol           |-> symbol.value,
                 initial_supply   |-> u256_to_decimal_str(
                                          U256FromWords(LowHalf(low.value), LowHalf(high.value))),
                 memecoin_address |-> normalize_address(memecoin_address.value)])

CREATION_EVENT == "selector(MemecoinCreated)"
LAUNCH_EVENT   == "selector(MemecoinLaunched)"

\* handle_event up to the call of process_launch_event: what it does with
\* an event of the given keys and data
handle_event(keys, data) ==
    IF keys = <<>> THEN [status |-> "err", branch |-> "none", error |-> "No event selector"]
    ELSE IF keys[1] = LAUNCH_EVENT
    THEN LET decoded_data == LaunchEventFromData(data)
         IN  IF decoded_data.status = "ok"
             THEN [status |-> "ok", branch |-> "launch", value |-> decoded_data.value]
             ELSE [status |-> decoded_data.status, branch |-> "launch",
                   error |-> "Parsing Launch Event"]
    ELSE [status |-> "panic", branch |-> "unreachable", kind |-> "unreachable!()"]

----------------------------------------------------------------------------
(* Launch pipeline: handle_event, process_launch_event, retry_failed_call  *)

CONCURRENT_CALLS == 5      \* Semaphore::new(5)

Max(a, b) == IF a > b THEN a ELSE b

\* one task slot per event; a burst run delivers one event more than there are permits
BurstEvents == CONCURRENT_CALLS + 1
Tasks == 1..Max(NumEvents, BurstEvents)
MAX_RETRIES      == 3
RETRY_DELAY_MS   == 1000

\* (variant: the delay is computed from the 0-based loop variable)
RetryDelayZeroBased(r) == RETRY_DELAY_MS * r

\* RETRY_DELAY_MS * (retry as u64 + 1)
RetryDelay(r) == RETRY_DELAY_MS * (r + 1)

\* (variant: only blocks strictly below the watermark are skipped)
AlreadyProcessedStrict(block_number, last_processed) == block_number < last_processed

\* if block_number <= last_processed { return Ok(()) }
AlreadyProcessed(block_number, last_processed) == block_number <= last_processed

\* LAST_PROCESSED_BLOCK.store(block_number, Ordering::Relaxed)
StoreWatermark(block_number, current) == block_number

\* calls of get_aggregate_call_data in flight
InFlight == Cardinality({t \in Tasks : hpc[t] = "calling"})
          + Cardinality({t \in Tasks : rpc[t] = "call"})

InitPipeline(n, top, f) ==
    /\ nEvents = n
    /\ topBlock = top
    /\ faults = f
    /\ LAST_PROCESSED_BLOCK = 0
    /\ permits = CONCURRENT_CALLS
    /\ delivered = 0
    /\ evBlock = [t \in Tasks |-> 0]
    /\ hpc = [t \in Tasks |-> "idle"]
    /\ rpc = [t \in Tasks |-> "none"]
    /\ retry = [t \in Tasks |-> 0]
    /\ sleptMs = [t \in Tasks |-> 0]
    /\ attempts = [t \in Tasks |-> 0]
    /\ spawned = [t \in Tasks |-> 0]

\* payloads of the launch events the indexer delivers: a complete one and
\* one that lacks exchange_name
DeliveredData == {<<1, 1, 2>>, <<1, 1>>}

\* The indexer hands the next event to the handler, which spawns
\* handle_event_async; handle_event decodes the launch payload.
HandleEvent ==
    /\ delivered < nEvents
    /\ LET t == delivered + 1
           lo == IF delivered = 0 THEN 1 ELSE evBlock[delivered]
       IN  \E b \in lo..topBlock, data \in DeliveredData :
             /\ delivered' = t
             /\ evBlock' = [evBlock EXCEPT ![t] = b]
             /\ hpc' = [hpc EXCEPT ![t] =
                          IF handle_event(<<LAUNCH_EVENT>>, data).status = "ok"
                          THEN "process" ELSE "decode_err"]
    /\ UNCHANGED <<LAST_PROCESSED_BLOCK, permits, rpc, retry, sleptMs, attempts,
                   spawned, nEvents, topBlock, faults>>
    /\ UNCHANGED <<monVars, codecVars, libVars>>

\* process_launch_event, up to the watermark check
ProcessLoad(t) ==
    /\ hpc[t] = "process"
    /\ hpc' = [hpc EXCEPT ![t] =
                 IF AlreadyProcessed(evBlock[t], LAST_PROCESSED_BLOCK)
                 THEN "skipped" ELSE "acquire"]
    /\ UNCHANGED <<LAST_PROCESSED_BLOCK, permits, delivered, evBlock, rpc, retry,
                   sleptMs, attempts, spawned, nEvents, topBlock, faults>>
    /\ UNCHANGED <<monVars, codecVars, libVars>>

\* CONCURRENT_CALLS.acquire().await, then the call is issued
ProcessAcquire(t) ==
    /\ hpc[t] = "acquire"
    /\ permits > 0
    /\ permits' = permits - 1
    /\ hpc' = [hpc EXCEPT ![t] = "calling"]
    /\ attempts' = [attempts EXCEPT ![t] = @ + 1]
    /\ UNCHANGED <<LAST_PROCESSED_BLOCK, delivered, evBlock, rpc, retry, sleptMs,
                   spawned, nEvents, topBlock, faults>>
    /\ UNCHANGED <<monVars, codecVars, libVars>>

\* get_aggregate_call_data returned Ok: store the watermark, drop the permit
ProcessOk(t) ==
    /\ hpc[t] = "calling"
    /\ "ok" \in CallOutcomes
    /\ LAST_PROCESSED_BLOCK' = StoreWatermark(evBlock[t], LAST_PROCESSED_BLOCK)
    /\ permits' = permits + 1
    /\ hpc' = [hpc EXCEPT ![t] = "ok"]
    /\ UNCHANGED <<delivered, evBlock, rpc, retry, sleptMs, attempts, spawned, nEvents, topBlock, faults>>
    /\ UNCHANGED <<monVars, codecVars, libVars>>

\* get_aggregate_call_data returned Err: spawn the retry task, return the
\* error, drop the permit.  The retry task starts with its first sleep.
ProcessErr(t) ==
    /\ hpc[t] = "calling"
    /\ "err" \in CallOutcomes
    /\ faults > 0
    /\ faults' = faults - 1
    /\ permits' = permits + 1
    /\ hpc' = [hpc EXCEPT ![t] = "err"]
    /\ spawned' = [spawned EXCEPT ![t] = @ + 1]
    /\ rpc' = [rpc EXCEPT ![t] = "sleep"]
    /\ retry' = [retry EXCEPT ![t] = 0]
    /\ sleptMs' = [sleptMs EXCEPT ![t] = RetryDelay(0)]
    /\ UNCHANGED <<LAST_PROCESSED_BLOCK, delivered, evBlock, attempts, nEvents, topBlock>>
    /\ UNCHANGED <<monVars, codecVars, libVars>>

\* get_aggregate_call_data panicked (parse_call_result indexed past the end
\* of a short response): the handler task dies, its permit is dropped with
\* it, no retry task is started.
ProcessPanic(t) ==
    /\ hpc[t] = "calling"
    /\ "panic" \in CallOutcomes
    /\ faults > 0
    /\ faults' = faults - 1
    /\ permits' = permits + 1
    /\ hpc' = [hpc EXCEPT ![t] = "panicked"]
    /\ UNCHANGED <<LAST_PROCESSED_BLOCK, delivered, evBlock, rpc, retry, sleptMs,
                   attempts, spawned, nEvents, topBlock>>
    /\ UNCHANGED <<monVars, codecVars, libVars>>

\* the sleep of retry_failed_call is over: the call is issued
RetryCall(t) ==
    /\ rpc[t] = "sleep"
    /\ rpc' = [rpc EXCEPT ![t] = "call"]
    /\ attempts' = [attempts EXCEPT ![t] = @ + 1]
    /\ UNCHANGED <<LAST_PROCESSED_BLOCK, permits, delivered, evBlock, hpc, retry,
                   sleptMs, spawned, nEvents, topBlock, faults>>
    /\ UNCHANGED <<monVars, codecVars, libVars>>

RetryOk(t) ==
    /\ rpc[t] = "call"
    /\ "ok" \in CallOutcomes
    /\ LAST_PROCESSED_BLOCK' = StoreWatermark(evBlock[t], LAST_PROCESSED_BLOCK)
    /\ rpc' = [rpc EXCEPT ![t] = "succeeded"]
    /\ UNCHANGED <<permits, delivered, evBlock, hpc, retry, sleptMs, attempts,
                   spawned, nEvents, topBlock, faults>>
    /\ UNCHANGED <<monVars, codecVars, libVars>>

RetryErr(t) ==
    /\ rpc[t] = "call"
    /\ "err" \in CallOutcomes
    /\ faults > 0
    /\ faults' = faults - 1
    /\ retry' = [retry EXCEPT ![t] = @ + 1]
    /\ IF retry[t] + 1 < MAX_RETRIES
       THEN /\ rpc' = [rpc EXCEPT ![t] = "sleep"]
            /\ sleptMs' = [sleptMs EXCEPT ![t] = RetryDelay(retry[t] + 1)]
       ELSE /\ rpc' = [rpc EXCEPT ![t] = "exhausted"]
            /\ UNCHANGED sleptMs
    /\ UNCHANGED <<LAST_PROCESSED_BLOCK, permits, delivered, evBlock, hpc, attempts,
                   spawned, nEvents, topBlock>>
    /\ UNCHANGED <<monVars, codecVars, libVars>>

\* get_aggregate_call_data panicked in the retry task: the task dies
RetryPanic(t) ==
    /\ rpc[t] = "call"
    /\ "panic" \in CallOutcomes
    /\ faults > 0
    /\ faults' = faults - 1
    /\ rpc' = [rpc EXCEPT ![t] = "panicked"]
    /\ UNCHANGED <<LAST_PROCESSED_BLOCK, permits, delivered, evBlock, hpc, retry,
                   sleptMs, attempts, spawned, nEvents, topBlock>>
    /\ UNCHANGED <<monVars, codecVars, libVars>>

NextPipeline ==
    \/ HandleEvent
    \/ \E t \in Tasks : ProcessLoad(t)
    \/ \E t \in Tasks : ProcessAcquire(t)
    \/ \E t \in Tasks : ProcessOk(t)
    \/ \E t \in Tasks : ProcessErr(t)
    \/ \E t \in Tasks : ProcessPanic(t)
    \/ \E t \in Tasks : RetryCall(t)
    \/ \E t \in Tasks : RetryOk(t)
    \/ \E t \in Tasks : RetryErr(t)
    \/ \E t \in Tasks : RetryPanic(t)

----------------------------------------------------------------------------
(* Library functions, called once on sampled arguments                     *)

InitLib ==
    /\ op = "none"
    /\ args = <<>>
    /\ result = <<>>

\* the sequences over alphabet of length 0..n
SeqsUpTo(alphabet, n) == UNION {[1..k -> alphabet] : k \in 0..n}

(* decode_short_string (src/utils/call.rs) *)

HexDigits == <<"0", "1", "2", "3", "4", "5", "6", "7", "8", "9",
               "a", "b", "c", "d", "e", "f">>

IsHexDigit(c) == \E k \in 1..16 : HexDigits[k] = c

HexValue(c) == (CHOOSE k \in 1..16 : HexDigits[k] = c) - 1

\* felt.trim_start_matches("0x")
RECURSIVE TrimStart0x(_)
TrimStart0x(s) ==
    IF Len(s) >= 2 /\ s[1] = "0" /\ s[2] = "x"
    THEN TrimStart0x(SubSeq(s, 3, Len(s)))
    ELSE s

\* (0..len).step_by(2).filter_map(|i| u8::from_str_radix(&hex_str[i..i + 2], 16).ok()):
\* a pair that is not two hex digits is dropped
RECURSIVE HexPairs(_)
HexPairs(h) ==
    IF Len(h) < 2 THEN <<>>
    ELSE (IF IsHexDigit(h[1]) /\ IsHexDigit(h[2])
          THEN <<16 * HexValue(h[1]) + HexValue(h[2])>>
          ELSE <<>>) \o HexPairs(SubSeq(h, 3, Len(h)))

\* String::from_utf8(bytes).is_ok(), for bytes without a UTF-8 lead byte
\* (0xC2..0xF4): such bytes are valid exactly when all are below 0x80
IsUtf8(bytes) == \A i \in 1..Len(bytes) : bytes[i] < 128

\* s.trim_matches(char::from(0))
RECURSIVE TrimNul(_)
TrimNul(s) ==
    IF s = <<>> THEN s
    ELSE IF s[1] = 0 THEN TrimNul(Tail(s))
    ELSE IF s[Len(s)] = 0 THEN TrimNul(SubSeq(s, 1, Len(s) - 1))
    ELSE s

decode_short_string(felt) ==
    LET hex_str == TrimStart0x(felt)
        bytes   == HexPairs(hex_str)
    IN  IF Len(hex_str) % 2 # 0
        THEN [status |-> "panic", kind |-> "Hex string length is not even", value |-> hex_str]
        ELSE IF bytes = <<>>
        THEN [status |-> "panic", kind |-> "Decoded byte array is empty.", value |-> hex_str]
        ELSE IF IsUtf8(bytes)
        THEN [status |-> "ok", kind |-> "decoded", value |-> TrimNul(bytes)]
        ELSE [status |-> "ok", kind |-> "raw_hex", value |-> <<"0", "x">> \o hex_str]

\* sampled characters: hex digits that make the bytes 0x00 (NUL), 0x44,
\* 0x48 (ASCII), 0x80.. (not UTF-8), and one character that is no hex digit
HexSample == {"0", "4", "8", "z"}

HexInputs ==
    {prefix \o body : prefix \in {<<>>, <<"0", "x">>}, body \in SeqsUpTo(HexSample, MaxHexLen)}

DecodeShortString ==
    /\ op = "none"
    /\ \E felt \in HexInputs :
         /\ args' = <<felt>>
         /\ result' = decode_short_string(felt)
    /\ op' = "decode_short_string"
    /\ UNCHANGED <<monVars, pipeVars, codecVars>>

(* Fraction (src/utils/types/Fraction.rs) *)

\* Fraction::new(numerator, Some(denominator))
FractionNew(n, d) ==
    IF d = 0 THEN Err("DivisionByZero")
    ELSE Ok([numerator |-> n, denominator |-> d])

\* the fractions Fraction::new can build from sampled integers
Fractions ==
    {[numerator |-> n, denominator |-> d] :
        n \in (0 - MaxNumerator)..MaxNumerator,
        d \in ((0 - MaxNumerator)..MaxNumerator) \ {0}}

FractionAdd(a, b) ==
    IF a.denominator = b.denominator
    THEN [numerator |-> a.numerator + b.numerator, denominator |-> a.denominator]
    ELSE [numerator   |-> a.numerator * b.denominator + b.numerator * a.denominator,
          denominator |-> a.denominator * b.denominator]

\* a subtraction that takes the equal-denominator shortcut unconditionally
FractionSubNoCross(a, b) ==
    [numerator |-> a.numerator - b.numerator, denominator |-> a.denominator]

FractionSub(a, b) ==
    IF a.denominator = b.denominator
    THEN [numerator |-> a.numerator - b.numerator, denominator |-> a.denominator]
    ELSE [numerator   |-> a.numerator * b.denominator - b.numerator * a.denominator,
          denominator |-> a.denominator * b.denominator]

FractionMul(a, b) ==
    [numerator   |-> a.numerator * b.numerator,
     denominator |-> a.denominator * b.denominator]

\* a division that tests the divisor's denominator instead of its numerator
FractionDivTestsDenominator(a, b) ==
    IF b.denominator = 0 THEN Err("DivisionByZero")
    ELSE Ok([numerator   |-> a.numerator * b.denominator,
             denominator |-> a.denominator * b.numerator])

FractionDiv(a, b) ==
    IF b.numerator = 0 THEN Err("DivisionByZero")
    ELSE Ok([numerator   |-> a.numerator * b.denominator,
             denominator |-> a.denominator * b.numerator])

\* PartialEq: equality by cross-multiplication
FractionEq(a, b) == a.numerator * b.denominator = b.numerator * a.denominator

\* PartialOrd: partial_cmp of the cross products, read as a < b
FractionLt(a, b) == a.numerator * b.denominator < b.numerator * a.denominator

\* a < b and a == b on sampled fractions
CompareFractions ==
    /\ op = "none"
    /\ \E a \in Fractions, b \in Fractions :
         /\ args' = <<a, b>>
         /\ result' = [lt |-> FractionLt(a, b), eq |-> FractionEq(a, b)]
    /\ op' = "compare"
    /\ UNCHANGED <<monVars, pipeVars, codecVars>>

\* a / b
DivFractions ==
    /\ op = "none"
    /\ \E a \in Fractions, b \in Fractions :
         /\ args' = <<a, b>>
         /\ result' = FractionDiv(a, b)
    /\ op' = "div"
    /\ UNCHANGED <<monVars, pipeVars, codecVars>>

\* (a / b)? * b
MulBack ==
    /\ op = "div"
    /\ result.status = "ok"
    /\ result' = Ok(FractionMul(result.value, args[2]))
    /\ op' = "div_mul"
    /\ UNCHANGED args
    /\ UNCHANGED <<monVars, pipeVars, codecVars>>

\* a + b
AddFractions ==
    /\ op = "none"
    /\ \E a \in Fractions, b \in Fractions :
         /\ args' = <<a, b>>
         /\ result' = Ok(FractionAdd(a, b))
    /\ op' = "add"
    /\ UNCHANGED <<monVars, pipeVars, codecVars>>

\* (a + b) - b
SubBack ==
    /\ op = "add"
    /\ result' = Ok(FractionSub(result.value, args[2]))
    /\ op' = "add_sub"
    /\ UNCHANGED args
    /\ UNCHANGED <<monVars, pipeVars, codecVars>>

(* Fraction::to_formatted_string, Fraction::to_significant_digits *)

Abs(n) == IF n < 0 THEN 0 - n ELSE n

\* BigInt::div_rem truncates towards zero; the remainder has the sign of
\* the dividend
TruncDiv(a, b) ==
    IF (a < 0) = (b < 0) THEN Abs(a) \div Abs(b) ELSE 0 - (Abs(a) \div Abs(b))

TruncRem(a, b) == a - b * TruncDiv(a, b)

\* BigInt::to_string
IntToString(n) == IF n < 0 THEN <<"-">> \o ToDecimal(0 - n) ELSE ToDecimal(n)

\* while str_value.len() <= precision { str_value.insert(0, '0') }
RECURSIVE PadZeros(_, _)
PadZeros(str, precision) ==
    IF Len(str) <= precision THEN PadZeros(<<"0">> \o str, precision) ELSE str

\* s.trim_end_matches('0')
RECURSIVE TrimEndZeros(_)
TrimEndZeros(str) ==
    IF str # <<>> /\ str[Len(str)] = "0"
    THEN TrimEndZeros(SubSeq(str, 1, Len(str) - 1))
    ELSE str

\* the loop that pushes ',' before every group of three integer characters
WithSeparators(int_chars) ==
    Flatten([i \in 1..Len(int_chars) |->
                IF i > 1 /\ (Len(int_chars) - (i - 1)) % 3 = 0
                THEN <<",", int_chars[i]>>
                ELSE <<int_chars[i]>>])

to_formatted_string(f) ==
    IF f.numerator = 0 THEN Ok(<<"0">>)
    ELSE
      LET numerator == f.numerator * (10 ^ Precision)
          quotient  == TruncDiv(numerator, f.denominator)
          remainder == TruncRem(numerator, f.denominator)
      IN  IF remainder < 0 \/ f.denominator < 0
          THEN [status |-> "panic", kind |-> "to_biguint().unwrap() on a negative value"]
          ELSE
            LET rounded   == IF remainder * 2 >= f.denominator THEN quotient + 1 ELSE quotient
                str_value == PadZeros(IntToString(rounded), Precision)
                decimal_pos == Len(str_value) - Precision
                int_part  == SubSeq(str_value, 1, decimal_pos)
                frac_part == SubSeq(str_value, decimal_pos + 1, Len(str_value))
            IN  Ok(WithSeparators(int_part)
                     \o (IF \A i \in 1..Len(frac_part) : frac_part[i] = "0"
                         THEN <<>>
                         ELSE <<".">> \o TrimEndZeros(frac_part)))

\* the loop of to_significant_digits over the characters of formatted:
\* acc holds count, seen_decimal and the result built so far
RECURSIVE KeepDigits(_, _, _)
KeepDigits(formatted, digits, acc) ==
    IF formatted = <<>> THEN acc
    ELSE
      LET c == formatted[1]
          next ==
            IF c = "." THEN [acc EXCEPT !.seen_decimal = TRUE, !.result = @ \o <<c>>]
            ELSE IF c = "," THEN [acc EXCEPT !.result = @ \o <<c>>]
            ELSE IF \E k \in 0..9 : DigitChar(k) = c
            THEN IF acc.count < digits \/ ~acc.seen_decimal
                 THEN [acc EXCEPT !.count = IF c # "0" \/ @ > 0 THEN @ + 1 ELSE @,
                                  !.result = @ \o <<c>>]
                 ELSE acc
            ELSE acc
      IN  KeepDigits(Tail(formatted), digits, next)

to_significant_digits(f, digits, rounding) ==
    LET formatted == to_formatted_string(f)
    IN  IF formatted.status # "ok" THEN formatted
        ELSE IF formatted.value = <<"0">> THEN formatted
        ELSE
          LET kept == KeepDigits(formatted.value, digits,
                                 [count |-> 0, seen_decimal |-> FALSE, result |-> <<>>])
              trimmed == IF kept.seen_decimal THEN TrimEndZeros(kept.result) ELSE kept.result
              popped  == IF trimmed # <<>> /\ trimmed[Len(trimmed)] = "."
                         THEN SubSeq(trimmed, 1, Len(trimmed) - 1)
                         ELSE trimmed
          IN  Ok(IF rounding = "RoundDown" THEN popped ELSE kept.result)

\* sampled fractions to format: small ones, the documented 12345/100, one
\* above a million, and ones within half a unit of the last kept decimal
\* below an integer
FormatNumerators == (0..MaxFormatNum) \cup {12345, 1234567, 2 * (10 ^ Precision) - 1}

FormatDenominators == {1, 2, 3, 7, 10, 100, 2 * (10 ^ Precision)}

SignificantDigits ==
    /\ op = "none"
    /\ \E n \in FormatNumerators, d \in FormatDenominators, digits \in {0, 2},
          rounding \in {"RoundDown", "RoundHalfUp"} :
         /\ args' = <<[numerator |-> n, denominator |-> d], digits, rounding>>
         /\ result' = to_significant_digits([numerator |-> n, denominator |-> d], digits, rounding)
    /\ op' = "to_significant_digits"
    /\ UNCHANGED <<monVars, pipeVars, codecVars>>

(* Fraction: values built by Fraction::new and a sequence of operations *)

\* an invert that swaps without looking at the numerator
FractionInvertUnchecked(a) ==
    Ok([numerator |-> a.denominator, denominator |-> a.numerator])

\* Fraction::invert
FractionInvert(a) ==
    IF a.numerator = 0 THEN Err("DivisionByZero")
    ELSE Ok([numerator |-> a.denominator, denominator |-> a.numerator])

\* Fraction::remainder: BigInt % truncates, the sign follows the numerator,
\* and panics on a zero divisor
FractionRemainder(a) ==
    IF a.denominator = 0
    THEN [status |-> "panic", kind |-> "attempt to divide by zero"]
    ELSE Ok([numerator   |-> TruncRem(a.numerator, a.denominator),
             denominator |-> a.denominator])

\* number of operations applied to the value built by Fraction::new
OpsApplied == IF op = "chain" THEN args[1] ELSE 0

\* Fraction::new(n, Some(d)), any integers
NewFraction ==
    /\ op = "none"
    /\ \E n \in (0 - MaxNumerator)..MaxNumerator, d \in (0 - MaxNumerator)..MaxNumerator :
         /\ args' = <<n, d>>
         /\ result' = FractionNew(n, d)
    /\ op' = "new"
    /\ UNCHANGED <<monVars, pipeVars, codecVars>>

\* value + b, value - b, value * b or value / b for a fraction b built by
\* Fraction::new
ChainBinary ==
    /\ op \in {"new", "chain"}
    /\ result.status = "ok"
    /\ OpsApplied < MaxOps
    /\ \E b \in Fractions, f \in {"add", "sub", "mul", "div"} :
         result' = CASE f = "add" -> Ok(FractionAdd(result.value, b))
                     [] f = "sub" -> Ok(FractionSub(result.value, b))
                     [] f = "mul" -> Ok(FractionMul(result.value, b))
                     [] f = "div" -> FractionDiv(result.value, b)
    /\ args' = <<OpsApplied + 1>>
    /\ op' = "chain"
    /\ UNCHANGED <<monVars, pipeVars, codecVars>>

\* value.invert() or value.remainder()
ChainUnary ==
    /\ op \in {"new", "chain"}
    /\ result.status = "ok"
    /\ OpsApplied < MaxOps
    /\ \E f \in {"invert", "remainder"} :
         result' = IF f = "invert" THEN FractionInvert(result.value)
                                   ELSE FractionRemainder(result.value)
    /\ args' = <<OpsApplied + 1>>
    /\ op' = "chain"
    /\ UNCHANGED <<monVars, pipeVars, codecVars>>

(* format_large_number (src/telegram/utils.rs) *)

\* c.is_digit(10)
IsDecimalDigit(c) == \E k \in 0..9 : DigitChar(k) = c

\* s.trim_start_matches('0')
RECURSIVE TrimStartZeros(_)
TrimStartZeros(str) ==
    IF str # <<>> /\ str[1] = "0" THEN TrimStartZeros(Tail(str)) ELSE str

\* s.trim_end_matches('.')
RECURSIVE TrimEndPoints(_)
TrimEndPoints(str) ==
    IF str # <<>> /\ str[Len(str)] = "."
    THEN TrimEndPoints(SubSeq(str, 1, Len(str) - 1))
    ELSE str

\* n characters '0'
Zeros(n) == [i \in 1..n |-> "0"]

format_large_number(input) ==
    IF \E i \in 1..Len(input) : ~IsDecimalDigit(input[i])
    THEN Err("InvalidInput")
    ELSE
      LET input_len == Len(input)
      IN  IF input_len < LargeNumberDecimals
          THEN LET zeros_needed == LargeNumberDecimals - input_len
                   padded == <<"0", ".">> \o Zeros(zeros_needed) \o TrimStartZeros(input)
               IN  IF padded = <<"0", ".">> THEN Ok(<<"0">>)
                   ELSE Ok(TrimEndPoints(TrimEndZeros(padded)))
          ELSE IF input_len = LargeNumberDecimals
          THEN Ok(<<"1">>)
          ELSE
            LET decimal_position == input_len - LargeNumberDecimals
                whole    == SubSeq(input, 1, decimal_position)
                fraction == SubSeq(input, decimal_position + 1, input_len)
                pointed  == IF fraction # Zeros(LargeNumberDecimals)
                            THEN whole \o <<".">> \o TrimEndZeros(fraction)
                            ELSE whole
                trimmed  == TrimStartZeros(pointed)
                led      == IF trimmed = <<>> \/ trimmed[1] = "."
                            THEN <<"0">> \o trimmed ELSE trimmed
            IN  IF led[Len(led)] = "."
                THEN Ok(SubSeq(led, 1, Len(led) - 1))
                ELSE Ok(led)

\* format_large_number on strings of the digits 0, 1, 5 and a letter
FormatLargeNumber ==
    /\ op = "none"
    /\ \E input \in SeqsUpTo({"0", "1", "5", "x"}, MaxInputLen) :
         /\ args' = <<input>>
         /\ result' = format_large_number(input)
    /\ op' = "format_large_number"
    /\ UNCHANGED <<monVars, pipeVars, codecVars>>

(* Event decoders and handle_event on sampled events *)

Prefixes(seq) == {SubSeq(seq, 1, n) : n \in 0..Len(seq)}

\* words sampled for short strings: empty, a control character, a letter,
\* a letter followed by a zero byte, a control character and a letter, two
\* letters, and a value out of range
StringWords ==
    {0, 1, 2, ByteRange, ByteRange + 2, 2 * ByteRange + 2, ByteRange ^ ShortStringLen}

\* launch payloads: the three words and one extra, cut at every length
LaunchDataInputs ==
    UNION {Prefixes(<<a, q, x, 1>>) : a \in 0..AddrBound, q \in 0..AddrBound, x \in StringWords}

\* creation payloads: the six words and one extra, cut at every length
CreationDataInputs ==
    UNION {Prefixes(<<o, n, sy, lo, hi, m, 1>>) :
              o \in 0..AddrBound, n \in StringWords, sy \in StringWords,
              lo \in {1, 2 ^ HalfBits + 1}, hi \in {0, 1}, m \in 0..AddrBound}

DecodeLaunch ==
    /\ op = "none"
    /\ \E data \in LaunchDataInputs :
         /\ args' = <<data>>
         /\ result' = LaunchEventFromData(data)
    /\ op' = "decode_launch"
    /\ UNCHANGED <<monVars, pipeVars, codecVars>>

DecodeCreation ==
    /\ op = "none"
    /\ \E data \in CreationDataInputs :
         /\ args' = <<data>>
         /\ result' = CreationEventFromData(data)
    /\ op' = "decode_creation"
    /\ UNCHANGED <<monVars, pipeVars, codecVars>>

\* handle_event on events with no key, each known selector, another
\* selector, and a launch selector followed by a second key
HandleEventDispatch ==
    /\ op = "none"
    /\ \E keys \in {<<>>, <<LAUNCH_EVENT>>, <<CREATION_EVENT>>,
                    <<"selector(Transfer)">>, <<LAUNCH_EVENT, "key">>},
          data \in LaunchDataInputs \cup {<<1, 2, 2, 1, 0, 1>>} :
         /\ args' = <<keys, data>>
         /\ result' = handle_event(keys, data)
    /\ op' = "handle_event"
    /\ UNCHANGED <<monVars, pipeVars, codecVars>>

(* get_price, parse_liquidity_params (src/utils/liquidity.rs) *)

ETHER == [address |-> "ETHER.address", symbol |-> "ETH", decimals |-> 18,
          usdc_pair |-> "ETH/USDC pair"]
USDC  == [address |-> "USDC.address", symbol |-> "USDC", decimals |-> 6,
          usdc_pair |-> ""]
STRK  == [address |-> "STRK.address", symbol |-> "STRK", decimals |-> 18,
          usdc_pair |-> "STRK/USDC pair"]
USDT  == [address |-> "USDT.address", symbol |-> "USDT", decimals |-> 6,
          usdc_pair |-> "USDT/USDC pair"]

\* get_checksum_address: address.to_string()
get_checksum_address(address) == address

\* the four m.insert(key, token) calls, in order
QUOTE_TOKENS ==
    (get_checksum_address(ETHER.address) :> ETHER)
       @@ (get_checksum_address(STRK.address) :> USDC)
       @@ (get_checksum_address(USDC.address) :> STRK)
       @@ (get_checksum_address(USDT.address) :> USDT)

\* replies of provider.call(get_reserves): a failure, or up to four words
ReserveReplies ==
    {[ok |-> FALSE, words |-> <<>>]}
       \cup {[ok |-> TRUE, words |-> w] : w \in SeqsUpTo(0..MaxReserveWord, 4)}

\* parse_u256_from_felts(low, high): the decimal string of the 256-bit value
ParseU256FromFelts(low, high) ==
    u256_to_decimal_str(U256FromWords(LowHalf(low), LowHalf(high)))

\* (variant: the ratio is built as reserve0 over reserve1)
ReserveRatioInverted(reserve0, reserve1) == FractionNew(reserve0, reserve1)

\* Fraction::new(reserve1, Some(reserve0))
ReserveRatio(reserve0, reserve1) == FractionNew(reserve1, reserve0)

\* get_price(pair, block) when the chain would answer the call with reply
get_price(pair, reply) ==
    IF pair = ""
    THEN [status |-> "ok", calls |-> 0,
          value |-> FractionNew(10 ^ DECIMALS, 1).value]
    ELSE IF ~reply.ok
    THEN [status |-> "err", calls |-> 1, error |-> "Contract call failed"]
    ELSE IF Len(reply.words) < 2
    THEN [status |-> "err", calls |-> 1, error |-> "Failed to decode reserve0"]
    ELSE IF Len(reply.words) < 4
    THEN [status |-> "err", calls |-> 1, error |-> "Failed to decode reserve1"]
    ELSE
      LET reserve0 == DecimalValue(ParseU256FromFelts(reply.words[1], reply.words[2]))
          reserve1 == DecimalValue(ParseU256FromFelts(reply.words[3], reply.words[4]))
          ratio    == ReserveRatio(reserve0, reserve1)
      IN  IF ratio.status = "err"
          THEN [status |-> "err", calls |-> 1, error |-> ratio.error]
          ELSE [status |-> "ok", calls |-> 1,
                value |-> FractionMul(ratio.value, FractionNew(10 ^ PriceScale, 1).value)]

GetPrice ==
    /\ op = "none"
    /\ \E pair \in {"", ETHER.usdc_pair}, reply \in ReserveReplies :
         /\ args' = <<pair, reply>>
         /\ result' = get_price(pair, reply)
    /\ op' = "get_price"
    /\ UNCHANGED <<monVars, pipeVars, codecVars>>

\* sampled values of get_initial_price(starting_tick), a float, truncated
\* to an integer as BigUint::from_f64 truncates it
InitialPrices == (0 - 1)..MaxPrice

\* parse_liquidity_params(memecoin) for the memecoin's quote token, initial
\* price and total supply, when the chain would answer get_reserves with reply
parse_liquidity_params(quote_token, initial_price, total_supply, reply) ==
    LET is_quote_token_safe == quote_token \in DOMAIN QUOTE_TOKENS
    IN  IF ~is_quote_token_safe
        THEN [status |-> "panic", calls |-> 0, kind |-> "quote_token_infos.unwrap() on None"]
        ELSE
          LET quote_token_price_at_launch == get_price(QUOTE_TOKENS[quote_token].usdc_pair, reply)
              calls == quote_token_price_at_launch.calls
          IN  IF quote_token_price_at_launch.status = "err"
              THEN [status |-> "err", calls |-> calls, error |-> quote_token_price_at_launch.error]
              ELSE IF initial_price < 0
              THEN [status |-> "panic", calls |-> calls, kind |-> "BigUint::from_f64(..).unwrap() on None"]
              ELSE
                LET supply   == FractionNew(total_supply, 1).value
                    decimals == FractionMul(FractionNew(10 ^ DECIMALS, 1).value,
                                            FractionNew(10 ^ McapScale, 1).value)
                    price_fraction == FractionMul(FractionNew(initial_price, 1).value,
                                                  FractionNew(10 ^ DECIMALS, 1).value)
                    starting_mcap ==
                        FractionDiv(FractionMul(FractionMul(price_fraction,
                                                            quote_token_price_at_launch.value),
                                                supply),
                                    decimals)
                IN  IF starting_mcap.status = "err"
                    THEN [status |-> "err", calls |-> calls, error |-> starting_mcap.error]
                    ELSE
                      LET parsed_starting_mcap ==
                              to_significant_digits(starting_mcap.value, 0, "RoundDown")
                      IN  IF parsed_starting_mcap.status # "ok"
                          THEN [status |-> parsed_starting_mcap.status, calls |-> calls,
                                kind |-> "to_significant_digits"]
                          ELSE [status |-> "ok", calls |-> calls,
                                value |-> [is_quote_token_safe  |-> is_quote_token_safe,
                                           parsed_starting_mcap |-> parsed_starting_mcap.value]]

\* quote tokens of sampled memecoins: the four known addresses and one other
QuoteTokenInputs ==
    {ETHER.address, USDC.address, STRK.address, USDT.address, "other address"}

ParseLiquidityParams ==
    /\ op = "none"
    /\ \E quote_token \in QuoteTokenInputs, initial_price \in InitialPrices,
          total_supply \in 0..MaxSupply, reply \in ReserveReplies :
         /\ args' = <<quote_token, initial_price, total_supply, reply>>
         /\ result' = parse_liquidity_params(quote_token, initial_price, total_supply, reply)
    /\ op' = "parse_liquidity_params"
    /\ UNCHANGED <<monVars, pipeVars, codecVars>>

\* QUOTE_TOKENS.get(&quote_token) on a sampled address
QuoteTokenLookup ==
    /\ op = "none"
    /\ \E quote_token \in QuoteTokenInputs :
         /\ args' = <<quote_token>>
         /\ result' = IF quote_token \in DOMAIN QUOTE_TOKENS
                       THEN Ok(QUOTE_TOKENS[quote_token])
                       ELSE [status |-> "none"]
    /\ op' = "quote_token_lookup"
    /\ UNCHANGED <<monVars, pipeVars, codecVars>>

(* generate_calls (src/utils/call.rs) *)

\* the names whose field elements generate_calls pushes: the factory
\* address and the selectors of the eight entry points
FeltNames == <<"MEMECOIN_FACTORY_ADDRESS">> \o [k \in 1..NumCalls |-> CallBatch[k].method]

\* Felt::from_hex_unchecked(MEMECOIN_FACTORY_ADDRESS) and
\* get_selector_from_name(name): distinct field elements above the sampled
\* addresses
FeltOf(name) == MaxAddress + (CHOOSE k \in 1..Len(FeltNames) : FeltNames[k] = name)

\* the first call with Felt::ZERO pushed as its argument count
IsMemecoinCallNoCount(address) ==
    <<FeltOf("MEMECOIN_FACTORY_ADDRESS"), FeltOf("is_memecoin"), 0, address>>

\* the four pushes of the first call: factory, selector, Felt::ONE, address
IsMemecoinCall(address) ==
    <<FeltOf("MEMECOIN_FACTORY_ADDRESS"), FeltOf("is_memecoin"), 1, address>>

\* the three pushes of a call on the memecoin: address, selector, Felt::ZERO
MemecoinCall(address, method) == <<address, FeltOf(method), 0>>

generate_calls(address) ==
    <<8>>
      \o IsMemecoinCall(address)
      \o MemecoinCall(address, "name")
      \o MemecoinCall(address, "symbol")
      \o MemecoinCall(address, "total_supply")
      \o MemecoinCall(address, "owner")
      \o MemecoinCall(address, "launched_at_block_number")
      \o MemecoinCall(address, "get_team_allocation")
      \o MemecoinCall(address, "launched_with_liquidity_parameters")

GenerateCalls ==
    /\ op = "none"
    /\ \E address \in 0..MaxAddress :
         /\ args' = <<address>>
         /\ result' = generate_calls(address)
    /\ op' = "generate_calls"
    /\ UNCHANGED <<monVars, pipeVars, codecVars>>

NextLib ==
    \/ DecodeShortString
    \/ FormatLargeNumber
    \/ DecodeLaunch
    \/ DecodeCreation
    \/ HandleEventDispatch
    \/ NewFraction
    \/ ChainBinary
    \/ ChainUnary
    \/ GenerateCalls
    \/ ParseLiquidityParams
    \/ QuoteTokenLookup
    \/ GetPrice
    \/ SignificantDigits
    \/ CompareFractions
    \/ DivFractions
    \/ MulBack
    \/ AddFractions
    \/ SubBack

InitChains == {s \in UNION {[1..n -> 0..1] : n \in 0..2} : Ascending(s)}

InitMon ==
    /\ head = 1
    /\ chain \in InitChains
    /\ from_block \in {NoBlock, 0, 1}
    /\ mpc = "catchup"
    /\ continuation_token = NoToken
    /\ last_processed_block = StartBlock(from_block)
    /\ handled = [e \in 1..MaxEvents |-> 0]
    /\ lastPage = <<>>
    /\ lastPhase = "none"
    /\ wmAtFetch = StartBlock(from_block)
    /\ wmAtCallback = StartBlock(from_block)
    /\ lastReq = [from |-> NoBlock, token |-> NoToken, ok |-> TRUE]
    /\ fetchErrs = 0

NextMonitor ==
    \/ NewBlock
    \/ CatchUpFetchOk
    \/ CatchUpFetchErr
    \/ LivePollOk
    \/ LivePollErr

InitMonitor == InitMon /\ InitPipeline(0, 0, 0) /\ InitCodec /\ InitLib

SpecMonitor == InitMonitor /\ [][NextMonitor]_vars

\* the pipeline runs with the monitor at rest
InitMonIdle == InitMon /\ chain = <<>> /\ from_block = NoBlock

InitPipe == InitPipeline(NumEvents, MaxEvBlock, MaxFailures) /\ InitMonIdle /\ InitCodec /\ InitLib

SpecPipeline == InitPipe /\ [][NextPipeline]_vars

\* a burst of events in one block, one more than there are permits, and
\* two RPC failures
InitBurst == InitPipeline(BurstEvents, 1, 2) /\ InitMonIdle /\ InitCodec /\ InitLib

SpecBurst == InitBurst /\ [][NextPipeline]_vars

\* one aggregation call on a sampled response
InitCall == InitCodec /\ InitMonIdle /\ InitPipeline(0, 0, 0) /\ InitLib

SpecCodec == InitCall /\ [][NextCodec]_vars

\* --- one call of a library function on sampled arguments
InitLibrary == InitLib /\ InitMonIdle /\ InitPipeline(0, 0, 0) /\ InitCodec

SpecLib == InitLibrary /\ [][NextLib]_vars

----------------------------------------------------------------------------
(* Properties                                                              *)

BlockOf(e) == chain[e]

\* C1: in listen_for_events, last_processed_block starts at the filter's
\* starting block (0 when none is configured) and never decreases, whatever
\* the sequence of successful and failed fetches in catch-up and live poll.
C1_WatermarkMonotone ==
    /\ last_processed_block = (IF from_block = NoBlock THEN 0 ELSE from_block)
    /\ [][last_processed_block' >= last_processed_block]_vars

\* C1 witness: after failed fetches, the watermark has advanced past the
\* starting block during live polling.
C1_Witness ==
    /\ mpc = "live" /\ lastPhase = "live" /\ fetchErrs > 0
    /\ last_processed_block > (IF from_block = NoBlock THEN 0 ELSE from_block)
    /\ wmAtFetch < last_processed_block

\* C2: every event the chain holds at or after the starting block is passed
\* to the handler exactly once: never twice, and once live polling has moved
\* the watermark to block b, every event of the blocks up to b has been passed.
C2_ExactlyOnce ==
    /\ \A e \in 1..Len(chain) : handled[e] <= 1
    /\ mpc = "live" =>
         \A e \in 1..Len(chain) :
            (BlockOf(e) >= (IF from_block = NoBlock THEN 0 ELSE from_block)
               /\ BlockOf(e) <= last_processed_block) => handled[e] = 1

\* C3 (as claimed): in catch-up, every event of a page passed to the handler
\* has a block number strictly greater than last_processed_block at the
\* start of the fetch of that page.
C3_PageStrictlyAboveWatermark ==
    lastPhase = "catchup" =>
        \A i \in 1..Len(lastPage) : BlockOf(lastPage[i]) > wmAtFetch

\* C3 (amended): in catch-up, every event of a page passed to the handler
\* has a block number greater than or equal to last_processed_block at the
\* start of the fetch of that page.
C3_PageNotBelowWatermark ==
    lastPhase = "catchup" =>
        \A i \in 1..Len(lastPage) : BlockOf(lastPage[i]) >= wmAtFetch

\* C3 witness: a second catch-up page begins in the block the first page
\* ended in, so the handler sees an event at the watermark.
C3_Witness ==
    /\ lastPhase = "catchup" /\ lastPage # <<>>
    /\ lastReq.token # NoToken
    /\ BlockOf(lastPage[1]) = wmAtFetch

HandlerReturned(t) == hpc[t] \in {"ok", "err", "skipped"}

\* C4: for every delivered launch event whose payload decoded, once its
\* handler has returned at least one aggregation attempt has been made.
C4_EveryLaunchAttempted ==
    \A t \in Tasks : HandlerReturned(t) => attempts[t] >= 1

\* C5: the shared watermark LAST_PROCESSED_BLOCK never decreases.
C5_SharedWatermarkMonotone ==
    [][LAST_PROCESSED_BLOCK' >= LAST_PROCESSED_BLOCK]_vars

\* C6: at most 5 calls of get_aggregate_call_data are in flight at any time,
\* handler tasks and retry tasks together.
C6_AtMostFiveInFlight == InFlight <= 5

\* C7: a failed first attempt starts exactly one retry task and the handler
\* returns its error while that task still runs; the task makes at most 3
\* attempts, sleeps 1000 ms x k before attempt k, stops at its first success
\* and ends after its third failure.
C7_RetryPolicy ==
    \A t \in Tasks :
        /\ spawned[t] = (IF hpc[t] = "err" THEN 1 ELSE 0)
        /\ (rpc[t] # "none") = (hpc[t] = "err")
        /\ retry[t] <= 3
        /\ rpc[t] \in {"sleep", "call"} =>
              /\ retry[t] < 3
              /\ sleptMs[t] = 1000 * (retry[t] + 1)
              /\ attempts[t] = 1 + retry[t] + (IF rpc[t] = "call" THEN 1 ELSE 0)
        /\ rpc[t] \in {"succeeded", "panicked"} =>
              retry[t] < 3 /\ attempts[t] = retry[t] + 2
        /\ rpc[t] = "exhausted" <=> retry[t] = 3
        /\ rpc[t] = "exhausted" => attempts[t] = 4 /\ sleptMs[t] = 3000

\* C7 witness: the first attempt for an event failed, its handler returned
\* the error, and its retry task gave up after the third failed attempt.
C7_Witness ==
    \E t \in Tasks : hpc[t] = "err" /\ rpc[t] = "exhausted" /\ retry[t] = 3

CallDone == cpc = "done" /\ rpcOk

\* C8: for a result buffer shorter than the schema requires,
\* parse_call_result reports a decode error and makes no access past the
\* end of the buffer.
C8_ShortBufferIsDecodeError ==
    (CallDone /\ Len(call_result) < FullLength) =>
        (outcome = "decode_error" /\ oobIdx = NoIndex)

WellFormed(buf) == \E r \in SampleResults : buf = AggregateResponse(1, r)

\* C9: decoding a well-formed response of the 8-call batch reads every word
\* of every call's result, sum(widths) words in all.
C9_DecoderReadsEveryResult ==
    (CallDone /\ WellFormed(call_result)) =>
        /\ ResultIndices \subseteq readIdx
        /\ Cardinality(readIdx \cap ResultIndices) = SumSeq(Widths)

\* C10: a response whose is_memecoin flag is zero is rejected by
\* get_aggregate_call_data as an invalid token.
C10_InvalidTokenRejected ==
    (CallDone /\ Len(call_result) = FullLength
        /\ Word(call_result, ResultIndex(1, 0)) = 0) =>
        outcome = "invalid_token"

\* C11: a 256-bit value is decoded from two consecutive result words as the
\* decimal rendering of low + high * 2^128, where the first word is the low
\* half and each half is the low 128 bits of its word; so every value split
\* into (low, high) words decodes back to its own decimal rendering.
C11_U256LowWordFirst ==
    (CallDone /\ outcome = "ok" /\ Len(call_result) > 10) =>
        LET first  == call_result[10]
            second == call_result[11]
            half   == 2 ^ HalfBits
        IN  /\ DecimalValue(parsed.total_supply) = (first % half) + (second % half) * half
            /\ parsed.total_supply = u256_to_decimal_str(DecimalValue(parsed.total_supply))
            /\ \A v \in 0..(half * half - 1) :
                   (first = v % half /\ second = v \div half) =>
                       parsed.total_supply = ToDecimal(v)

\* the value with low half 0 and high half 1 has been decoded as 2^128
C11_Witness ==
    /\ CallDone /\ outcome = "ok" /\ Len(call_result) > 10
    /\ call_result[10] = 0 /\ call_result[11] = 1
    /\ DecimalValue(parsed.total_supply) = 2 ^ HalfBits

\* C12: decode_short_string never aborts: for every input string,
\* including one with an odd number of hex digits or with none, it returns
\* the decoded string or the raw-hex fallback.
C12_ShortStringNeverAborts ==
    op = "decode_short_string" =>
        /\ result.status = "ok"
        /\ result.kind \in {"decoded", "raw_hex"}

NonZero(f) == f.numerator # 0 /\ f.denominator # 0

\* C13: for all fractions a and b with non-zero numerators and
\* denominators, (a / b) * b equals a and (a + b) - b equals a under the
\* cross-multiplication equality, whether or not the denominators agree.
C13_DivMulAddSubRoundTrip ==
    (op \in {"div_mul", "add_sub"} /\ NonZero(args[1]) /\ NonZero(args[2])) =>
        /\ result.status = "ok"
        /\ FractionEq(result.value, args[1])

\* (a + b) - b has been computed for different denominators and came back
\* as an unreduced fraction equal to a
C13_Witness ==
    /\ op = "add_sub"
    /\ NonZero(args[1]) /\ NonZero(args[2])
    /\ args[1].denominator # args[2].denominator
    /\ result.value # args[1]
    /\ FractionEq(result.value, args[1])

\* C14: a / b is the DivisionByZero error exactly when the numerator of b is
\* zero; otherwise its numerator is a.numerator * b.denominator and its
\* denominator is a.denominator * b.numerator.
C14_DivErrorIffZeroNumerator ==
    op = "div" =>
        LET a == args[1]
            b == args[2]
        IN  /\ (result.status = "err") <=> (b.numerator = 0)
            /\ result.status = "err" => result.error = "DivisionByZero"
            /\ result.status = "ok" =>
                  /\ result.value.numerator = a.numerator * b.denominator
                  /\ result.value.denominator = a.denominator * b.numerator

\* a division by a fraction with numerator zero has returned the error
C14_Witness ==
    /\ op = "div"
    /\ args[2].numerator = 0
    /\ result = Err("DivisionByZero")

\* C15: for every non-negative fraction, to_significant_digits(0, RoundDown)
\* returns the floor of the value as an integer string with thousands
\* separators and nothing after the integer part, never a larger integer.
C15_ZeroDigitsIsFloor ==
    (op = "to_significant_digits" /\ args[2] = 0 /\ args[3] = "RoundDown"
        /\ args[1].numerator >= 0 /\ args[1].denominator > 0) =>
        /\ result.status = "ok"
        /\ result.value = WithSeparators(ToDecimal(args[1].numerator \div args[1].denominator))

\* C16: get_price called with the empty pair string returns the unit
\* fraction, numerator 1 and denominator 1, and issues no chain call.
C16_EmptyPairIsUnit ==
    (op = "get_price" /\ args[1] = "") =>
        /\ result.status = "ok"
        /\ result.value = [numerator |-> 1, denominator |-> 1]
        /\ result.calls = 0

\* C17: for a memecoin whose quote token is not in the quote-token table,
\* parse_liquidity_params returns the outcome "quote token not recognized",
\* without a starting market cap; it neither returns an error nor aborts,
\* and it makes no price lookup.
C17_UnknownQuoteTokenIsOutcome ==
    (op = "parse_liquidity_params" /\ args[1] \notin DOMAIN QUOTE_TOKENS) =>
        /\ result.status = "ok"
        /\ ~result.value.is_quote_token_safe
        /\ result.calls = 0

\* The calls a reader of the aggregator's calldata finds after the leading
\* count: target, selector, argument count, then that many arguments, call
\* after call; complete is FALSE when words are left that form no call.
RECURSIVE ReadCalls(_)
ReadCalls(words) ==
    IF words = <<>> THEN [complete |-> TRUE, calls |-> <<>>]
    ELSE IF Len(words) < 3 \/ Len(words) < 3 + words[3]
    THEN [complete |-> FALSE, calls |-> <<>>]
    ELSE LET rest == ReadCalls(SubSeq(words, 4 + words[3], Len(words)))
         IN  [complete |-> rest.complete,
              calls    |-> <<[to       |-> words[1],
                              selector |-> words[2],
                              calldata |-> SubSeq(words, 4, 3 + words[3])]>> \o rest.calls]

\* C18: the calldata built by generate_calls is a call count followed, for
\* each call, by target, selector, argument count and exactly that many
\* arguments: the leading count is the number of calls, every argument count
\* matches, and no word is left over.
C18_CalldataWellFormed ==
    op = "generate_calls" =>
        LET read == ReadCalls(Tail(result))
        IN  /\ read.complete
            /\ Len(read.calls) = result[1]
            /\ Len(read.calls) = NumCalls
            /\ \A k \in 1..NumCalls :
                  /\ read.calls[k].selector = FeltOf(CallBatch[k].method)
                  /\ Len(read.calls[k].calldata) = CallBatch[k].nargs
                  /\ read.calls[k].to = IF k = 1 THEN FeltOf("MEMECOIN_FACTORY_ADDRESS")
                                                 ELSE args[1]
            /\ read.calls[1].calldata = <<args[1]>>

\* calldata has been generated for an address that reads as a count itself
C18_Witness ==
    /\ op = "generate_calls"
    /\ args[1] = 1
    /\ Len(result) = 1 + 4 + 3 * (NumCalls - 1)

\* a step of the monitor in which a catch-up fetch returned successfully
CatchUpFetched ==
    /\ mpc = "catchup"
    /\ head' = head
    /\ fetchErrs' = fetchErrs

\* what the provider returns for the catch-up request the monitor is due to send
CatchUpPage == GetEvents(FilterFrom(from_block), continuation_token, PageLimit)

\* C19: in catch-up, a successful fetch that returns an empty page with no
\* continuation token ends catch-up: the handler is not invoked and
\* last_processed_block is unchanged; from then on the monitor polls live
\* and never goes back to catch-up.
C19_EmptyPageEndsCatchUp ==
    [][/\ (CatchUpFetched /\ CatchUpPage.events = <<>>
                           /\ CatchUpPage.continuation_token = NoToken) =>
              /\ mpc' = "live"
              /\ handled' = handled
              /\ lastPage' = lastPage
              /\ last_processed_block' = last_processed_block
       /\ mpc = "live" => mpc' = "live"]_vars

\* catch-up ended without a page and a later live poll delivered the only
\* page handled so far
C19_Witness ==
    /\ mpc = "live"
    /\ lastPhase = "live"
    /\ lastReq.token = NoToken
    /\ SumSeq(handled) = Len(lastPage)

\* C20 as stated: in catch-up, every successfully fetched non-empty page
\* invokes the handler with all its events in order, sets
\* last_processed_block to the block of the page's last event, and then
\* catch-up loops with the page's continuation token.
C20_PageThenCatchUpLoops ==
    [][(CatchUpFetched /\ CatchUpPage.events # <<>>) =>
          /\ lastPage' = CatchUpPage.events
          /\ handled' = Deliver(CatchUpPage.events)
          /\ last_processed_block' = LastEventBlock(CatchUpPage.events)
          /\ continuation_token' = CatchUpPage.continuation_token
          /\ mpc' = "catchup"]_vars

\* C20 (amended): in catch-up, every successfully fetched non-empty page
\* invokes the handler with all its events in order and sets
\* last_processed_block to the block of the page's last event; when the
\* page came with a continuation token catch-up loops and the next request
\* is a catch-up request carrying that token, and when it came without one
\* catch-up ends and the monitor polls live.
C20_PageThenLoopOrLive ==
    [][/\ (CatchUpFetched /\ CatchUpPage.events # <<>>) =>
              /\ lastPage' = CatchUpPage.events
              /\ handled' = Deliver(CatchUpPage.events)
              /\ last_processed_block' = LastEventBlock(CatchUpPage.events)
              /\ continuation_token' = CatchUpPage.continuation_token
              /\ mpc' = IF CatchUpPage.continuation_token = NoToken
                        THEN "live" ELSE "catchup"
       /\ (mpc = "catchup" /\ lastReq' # lastReq) =>
              /\ lastReq'.from = FilterFrom(from_block)
              /\ lastReq'.token = continuation_token]_vars

\* a catch-up request carrying a token has returned a non-empty page with
\* a further token, and catch-up goes on
C20_Witness ==
    /\ mpc = "catchup"
    /\ lastPhase = "catchup"
    /\ lastReq.ok
    /\ lastReq.token # NoToken
    /\ continuation_token # NoToken
    /\ continuation_token = lastReq.token + Len(lastPage)

\* C21: a failed fetch, in catch-up or in live polling, invokes no handler,
\* leaves last_processed_block and the continuation token unchanged and
\* keeps the monitor in its loop; the request that follows a failed one is
\* identical to it.
C21_FailedFetchChangesNothing ==
    [][/\ fetchErrs' # fetchErrs =>
              /\ ~lastReq'.ok
              /\ mpc' = mpc
              /\ handled' = handled
              /\ lastPage' = lastPage
              /\ last_processed_block' = last_processed_block
              /\ continuation_token' = continuation_token
       /\ ~lastReq.ok =>
              /\ lastReq'.from = lastReq.from
              /\ lastReq'.token = lastReq.token]_vars

\* after two failed fetches a catch-up request carrying a token has been
\* answered and its page handled
C21_Witness ==
    /\ fetchErrs >= 2
    /\ lastReq.ok
    /\ lastReq.token # NoToken
    /\ lastPhase = "catchup"
    /\ SumSeq(handled) = 2 * PageLimit

\* C22: in both phases last_processed_block is advanced for a batch only
\* after the handler callback for that batch has returned: when the callback
\* is invoked the watermark still has the value it had when the batch was
\* fetched.
C22_WatermarkAdvancedAfterCallback ==
    lastPage # <<>> => wmAtCallback = wmAtFetch

\* C23: process_launch_event called with a block number at or below the
\* current LAST_PROCESSED_BLOCK returns success without acquiring a permit,
\* without an aggregation call, without starting a retry task, and leaves
\* the watermark unchanged.
C23_SkipLeavesEverything ==
    [][\A t \in Tasks :
          /\ (hpc[t] = "process" /\ hpc'[t] # "process"
                  /\ evBlock[t] <= LAST_PROCESSED_BLOCK) =>
                 /\ hpc'[t] = "skipped"
                 /\ permits' = permits
                 /\ attempts' = attempts
                 /\ spawned' = spawned
                 /\ rpc' = rpc
                 /\ LAST_PROCESSED_BLOCK' = LAST_PROCESSED_BLOCK
          /\ hpc[t] = "skipped" =>
                 /\ hpc'[t] = "skipped"
                 /\ attempts'[t] = 0
                 /\ spawned'[t] = 0
                 /\ rpc'[t] = "none"]_vars

\* a launch event in the block the watermark stands at has been skipped
C23_Witness ==
    \E t \in Tasks :
        /\ hpc[t] = "skipped"
        /\ evBlock[t] = LAST_PROCESSED_BLOCK
        /\ attempts[t] = 0
        /\ spawned[t] = 0

\* C24: every Fraction obtained from a successful Fraction::new followed by
\* any sequence of add, sub, mul, successful div, successful invert and
\* remainder has a non-zero denominator; Fraction::new with a zero
\* denominator returns an error and no value.
C24_DenominatorNeverZero ==
    /\ (op \in {"new", "chain"} /\ result.status = "ok") =>
           result.value.denominator # 0
    /\ (op = "new" /\ args[2] = 0) => result = Err("DivisionByZero")

\* a fraction of value zero has come out of a sequence of operations
C24_Witness ==
    /\ op = "chain"
    /\ args[1] = MaxOps
    /\ result.status = "ok"
    /\ result.value.numerator = 0
    /\ result.value.denominator < 0

\* C25: for a non-empty pair, get_price returns a Fraction equal to
\* (reserve1 / reserve0) * 10^12, reserve0 decoded from result words 0-1 and
\* reserve1 from words 2-3, exactly when the result has at least 4 words
\* and reserve0 is not zero; otherwise it returns an error and no Fraction.
C25_PriceIsScaledReserveRatio ==
    (op = "get_price" /\ args[1] # "") =>
        LET words == args[2].words
            half  == 2 ^ HalfBits
            reserve0 == (words[1] % half) + (words[2] % half) * half
            reserve1 == (words[3] % half) + (words[4] % half) * half
        IN  /\ result.status \in {"ok", "err"}
            /\ result.status = "ok" <=>
                  (args[2].ok /\ Len(words) >= 4 /\ reserve0 # 0)
            /\ result.status = "ok" =>
                  /\ result.value.denominator # 0
                  /\ FractionEq(result.value,
                                [numerator   |-> reserve1 * (10 ^ PriceScale),
                                 denominator |-> reserve0])

\* a price has been computed from two different reserves whose high words
\* count
C25_Witness ==
    /\ op = "get_price"
    /\ args[1] # ""
    /\ args[2].ok
    /\ args[2].words = <<1, 1, 0, 1>>
    /\ result.status = "ok"
    /\ result.value.numerator = (2 ^ HalfBits) * (10 ^ PriceScale)
    /\ result.value.denominator = 1 + 2 ^ HalfBits

\* C26: handle_event dispatches on the first key: an event carrying the
\* MemecoinCreated or the MemecoinLaunched selector is handled as its
\* variant and the handler returns normally, without aborting.
C26_BothSelectorsHandled ==
    (op = "handle_event" /\ args[1] # <<>>
        /\ args[1][1] \in {CREATION_EVENT, LAUNCH_EVENT}) =>
        /\ result.status # "panic"
        /\ result.branch = IF args[1][1] = CREATION_EVENT THEN "creation" ELSE "launch"

C27_LookupReturnsOwnRecord ==
    (op = "quote_token_lookup" /\ result.status = "ok") =>
        /\ result.value.address = args[1]
        /\ \A t \in {ETHER, USDC, STRK, USDT} :
              t.address = args[1] => result.value.usdc_pair = t.usdc_pair

\* C28: for all Fractions a and b with non-zero denominators of either
\* sign, a < b holds exactly when the value of a is less than the value of
\* b, and a == b exactly when the values are equal.  The values n/d are
\* compared after multiplying both by the positive (a.d * b.d)^2.
C28_ComparisonFollowsValue ==
    op = "compare" =>
        LET a == args[1]
            b == args[2]
            va == a.numerator * a.denominator * b.denominator * b.denominator
            vb == b.numerator * b.denominator * a.denominator * a.denominator
        IN  /\ result.lt <=> va < vb
            /\ result.eq <=> va = vb

\* C29: for every string s of decimal digits, of any length and with or
\* without leading zeros, format_large_number(s) is the exact decimal
\* representation of s / 10^18 with the trailing fractional zeros removed
\* and no decimal point when the value is an integer; a string with a
\* non-digit character yields InvalidInput.
C29_FormatIsExactQuotient ==
    op = "format_large_number" =>
        LET s == args[1]
            v == DecimalValue(s)
            whole  == ToDecimal(v \div (10 ^ LargeNumberDecimals))
            digits == ToDecimal(v % (10 ^ LargeNumberDecimals))
            frac   == TrimEndZeros(Zeros(LargeNumberDecimals - Len(digits)) \o digits)
        IN  IF \A i \in 1..Len(s) : IsDecimalDigit(s[i])
            THEN result = Ok(IF frac = <<>> THEN whole ELSE whole \o <<".">> \o frac)
            ELSE result = Err("InvalidInput")

====
